---------------------------- MODULE Spec2Model ----------------------------
(***************************************************************************)
(* The capture-analysis scripts of tests/bugs as state machines.           *)
(*                                                                         *)
(*   wireshark3.py  analyze_fasthttp_tcp_behavior: per-stream tracking,    *)
(*                  keyed by the decoder's stream id, followed by the      *)
(*                  post-pass over the finished stream collection.         *)
(*   wireshark1.py  analyze_fasthttp_connections: per-connection tracking, *)
(*                  keyed by the 4-tuple of the packet.                    *)
(*                                                                         *)
(* Time is counted in units of 10 ms, so that every timestamp and every    *)
(* threshold of the scripts (0.01 s, 0.1 s, 0.5 s, 1.0 s) is a whole       *)
(* number: a timestamp t stands for the decimal string t/100 the decoder   *)
(* gives.  The idle analysis of wireshark3.py, whose outcome depends on    *)
(* how the mean of the gaps is rounded, is computed on the floats of these *)
(* strings.  A Python dict that the scripts iterate over is a sequence of  *)
(* <<key, value>> pairs in insertion order; a dict used as a record with   *)
(* optional keys is a function whose DOMAIN is the set of keys present.    *)
(***************************************************************************)
EXTENDS Integers, Sequences, FiniteSets, TLC

(***************************************************************************)
(* Python helpers                                                          *)
(***************************************************************************)

\* {} : a dict with no key (as a record with optional keys)
EmptyRec == [x \in {} |-> 0]

\* d[k] = v on a record with optional keys
Put(d, k, v) == (k :> v) @@ d

\* k in d
Has(d, k) == k \in DOMAIN d

\* d.get(k, default)
Get(d, k, default) == IF k \in DOMAIN d THEN d[k] ELSE default

\* insertion-ordered dicts: a sequence of <<key, value>>
DictKeys(d) == [n \in DOMAIN d |-> d[n][1]]

DictKeySet(d) == {d[n][1] : n \in DOMAIN d}

DictHas(d, k) == k \in DictKeySet(d)

DictGet(d, k) == d[CHOOSE n \in DOMAIN d : d[n][1] = k][2]

DictSet(d, k, v) ==
    IF DictHas(d, k)
    THEN [n \in DOMAIN d |-> IF d[n][1] = k THEN <<k, v>> ELSE d[n]]
    ELSE Append(d, <<k, v>>)

\* set(seq)
Range(s) == {s[n] : n \in DOMAIN s}

MaxOfSeq(s) == CHOOSE x \in Range(s) : \A y \in Range(s) : y <= x

\* sorted(list of numbers): insertion sort
RECURSIVE InsertNum(_, _)
InsertNum(s, x) ==
    IF s = << >> THEN <<x>>
    ELSE IF Head(s) <= x
         THEN <<Head(s)>> \o InsertNum(Tail(s), x)
         ELSE <<x>> \o s

RECURSIVE Sorted(_)
Sorted(s) ==
    IF s = << >> THEN << >>
    ELSE InsertNum(Sorted(SubSeq(s, 1, Len(s) - 1)), s[Len(s)])

\* list.sort(key=lambda x: x[1]) on a list of pairs: stable
RECURSIVE InsertBySecond(_, _)
InsertBySecond(s, x) ==
    IF s = << >> THEN <<x>>
    ELSE IF Head(s)[2] <= x[2]
         THEN <<Head(s)>> \o InsertBySecond(Tail(s), x)
         ELSE <<x>> \o s

RECURSIVE SortBySecond(_)
SortBySecond(s) ==
    IF s = << >> THEN << >>
    ELSE InsertBySecond(SortBySecond(SubSeq(s, 1, Len(s) - 1)), s[Len(s)])

(***************************************************************************)
(* str.lower() and the substring test `'close' in value.lower()`.  A header*)
(* value is a sequence of one-character strings.                           *)
(***************************************************************************)
LowerChar(c) ==
    CASE c = "C" -> "c"
      [] c = "L" -> "l"
      [] c = "O" -> "o"
      [] c = "S" -> "s"
      [] c = "E" -> "e"
      [] c = "K" -> "k"
      [] c = "P" -> "p"
      [] c = "A" -> "a"
      [] c = "I" -> "i"
      [] c = "V" -> "v"
      [] OTHER -> c

Lower(s) == [n \in DOMAIN s |-> LowerChar(s[n])]

Contains(hay, needle) ==
    \E n \in 0 .. (Len(hay) - Len(needle)) :
        SubSeq(hay, n + 1, n + Len(needle)) = needle

StrClose == <<"c", "l", "o", "s", "e">>

StrKeepAlive == <<"k", "e", "e", "p", "-", "a", "l", "i", "v", "e">>


(***************************************************************************)
(* Python floats: IEEE 754 binary64, operations rounded to nearest, ties   *)
(* to even.  A non-negative float is held as its exact value in seconds,   *)
(* four digits <<a, b, c, d>> in base 2^24 standing for                    *)
(* a + b/2^24 + c/2^48 + d/2^72; every double from 2^-19 up to 2^24 has    *)
(* such a form.                                                            *)
(***************************************************************************)
Base == 16777216

FromInt(n) == <<n, 0, 0, 0>>

\* x < y
FLess(x, y) ==
    \/ x[1] < y[1]
    \/ /\ x[1] = y[1]
       /\ \/ x[2] < y[2]
          \/ /\ x[2] = y[2]
             /\ \/ x[3] < y[3]
                \/ (x[3] = y[3] /\ x[4] < y[4])

\* the exact sum, difference (of x >= y), product by a whole number and
\* quotient by a whole number below 128, the quotient cut off after 2^-72
ExactAdd(x, y) ==
    LET d == x[4] + y[4]
        c == x[3] + y[3] + (d \div Base)
        b == x[2] + y[2] + (c \div Base)
        a == x[1] + y[1] + (b \div Base)
    IN  <<a, b % Base, c % Base, d % Base>>

ExactSub(x, y) ==
    LET d == x[4] - y[4]
        c == x[3] - y[3] - (IF d < 0 THEN 1 ELSE 0)
        b == x[2] - y[2] - (IF c < 0 THEN 1 ELSE 0)
        a == x[1] - y[1] - (IF b < 0 THEN 1 ELSE 0)
    IN  <<a,
          IF b < 0 THEN b + Base ELSE b,
          IF c < 0 THEN c + Base ELSE c,
          IF d < 0 THEN d + Base ELSE d>>

ExactMul(x, k) ==
    LET d == x[4] * k
        c == x[3] * k + (d \div Base)
        b == x[2] * k + (c \div Base)
        a == x[1] * k + (b \div Base)
    IN  <<a, b % Base, c % Base, d % Base>>

ExactDiv(x, n) ==
    LET b == (x[1] % n) * Base + x[2]
        c == (b % n) * Base + x[3]
        d == (c % n) * Base + x[4]
    IN  [quotient |-> <<x[1] \div n, b \div n, c \div n, d \div n>>,
         inexact |-> d % n # 0]

\* number of binary digits of a positive whole number
RECURSIVE BitLength(_)
BitLength(n) ==
    IF n >= 65536 THEN 16 + BitLength(n \div 65536)
    ELSE IF n >= 256 THEN 8 + BitLength(n \div 256)
    ELSE IF n >= 16 THEN 4 + BitLength(n \div 16)
    ELSE IF n >= 2 THEN 1 + BitLength(n \div 2)
    ELSE 1

\* position of the leading binary digit of x > 0, the digit of 2^-72 being 0
LeadingBit(x) ==
    IF x[1] > 0 THEN 72 + BitLength(x[1]) - 1
    ELSE IF x[2] > 0 THEN 48 + BitLength(x[2]) - 1
    ELSE IF x[3] > 0 THEN 24 + BitLength(x[3]) - 1
    ELSE BitLength(x[4]) - 1

\* 2^i / 2^72
PowerDigit(i, j) == IF j = 4 - (i \div 24) THEN 2^(i % 24) ELSE 0

PowerOfTwo(i) ==
    <<PowerDigit(i, 1), PowerDigit(i, 2), PowerDigit(i, 3), PowerDigit(i, 4)>>

\* the k lowest binary digits of x
LowDigit(x, k, j) ==
    IF k >= 24 * (4 - j) + 24 THEN x[j]
    ELSE IF k <= 24 * (4 - j) THEN 0
    ELSE x[j] % 2^(k - 24 * (4 - j))

LowBits(x, k) ==
    <<LowDigit(x, k, 1), LowDigit(x, k, 2), LowDigit(x, k, 3), LowDigit(x, k, 4)>>

\* the double nearest to the exact value x, or to a value just above x when
\* inexact says that x was cut off: 53 binary digits are kept, a tie goes to
\* the even neighbour
RoundToDouble(x, inexact) ==
    IF x = FromInt(0) THEN x
    ELSE LET k == LeadingBit(x) - 52
         IN  IF k <= 0 THEN x
             ELSE LET low == LowBits(x, k)
                      kept == ExactSub(x, low)
                      odd == (kept[4 - (k \div 24)] \div 2^(k % 24)) % 2 = 1
                      up == \/ FLess(PowerOfTwo(k - 1), low)
                            \/ (low = PowerOfTwo(k - 1) /\ (inexact \/ odd))
                  IN  IF low = FromInt(0) /\ ~inexact THEN x
                      ELSE IF up THEN ExactAdd(kept, PowerOfTwo(k)) ELSE kept

\* float(s) for the decimal string s = t/100
Float(t) ==
    LET q == ExactDiv(FromInt(t), 100)
    IN  IF t = 0 THEN FromInt(0) ELSE RoundToDouble(q.quotient, q.inexact)

\* x + y, x - y (for x >= y), x * k and x / n on floats, k and n whole numbers;
\* a sum or difference with 0 and the difference of equal floats are exact
FAdd(x, y) ==
    IF x = FromInt(0) THEN y
    ELSE IF y = FromInt(0) THEN x
    ELSE RoundToDouble(ExactAdd(x, y), FALSE)

FSub(x, y) ==
    IF y = FromInt(0) THEN x
    ELSE IF x = y THEN FromInt(0)
    ELSE RoundToDouble(ExactSub(x, y), FALSE)

FMul(x, k) == RoundToDouble(ExactMul(x, k), FALSE)

FDiv(x, n) ==
    LET q == ExactDiv(x, n)
    IN  RoundToDouble(q.quotient, q.inexact)

\* sum(list), the additions made from left to right, and max(list) of floats
RECURSIVE FSum(_)
FSum(s) == IF s = << >> THEN FromInt(0) ELSE FAdd(FSum(SubSeq(s, 1, Len(s) - 1)), s[Len(s)])

RECURSIVE FMax(_)
FMax(s) ==
    IF Len(s) = 1 THEN s[1]
    ELSE LET front == FMax(SubSeq(s, 1, Len(s) - 1))
         IN  IF FLess(front, s[Len(s)]) THEN s[Len(s)] ELSE front


(***************************************************************************)
(* Decoded packets.  A field the decoder did not give (hasattr is False)   *)
(* has the value NoAttr; the flag fields are the strings "0" and "1", as   *)
(* the scripts compare them.                                               *)
(***************************************************************************)
NoAttr == "absent"

\* The endpoints of each captured conversation, by the stream id the decoder
\* gives it ("0", "1" or "2"; a packet goes "c2s" or "s2c").  Streams "0" and "1" are two
\* conversations from the same local port to the same server (the decoder
\* gives the later one a new stream id); stream "2" shares no endpoint with
\* them.
ClientOf(sid) ==
    IF sid = "2" THEN [ip |-> "10.0.0.3", port |-> "6000"]
                 ELSE [ip |-> "10.0.0.1", port |-> "5000"]

ServerOf(sid) ==
    IF sid = "2" THEN [ip |-> "10.0.0.4", port |-> "90"]
                 ELSE [ip |-> "10.0.0.2", port |-> "80"]

\* What a packet of each kind carries besides its endpoints and its time.
Shape(syn, ack, rst, fin) ==
    [tcp |-> TRUE, ip |-> TRUE,
     flags_syn |-> syn, flags_ack |-> ack, flags_reset |-> rst, flags_fin |-> fin,
     http |-> FALSE, request |-> FALSE, response |-> FALSE,
     has_connection |-> FALSE, connection |-> << >>,
     analysis_retransmission |-> FALSE, analysis_acked_unseen_segment |-> FALSE,
     length |-> 60]

\* decoders that report every flag of the TCP header
T_SYN     == Shape("1", "0", "0", "0")
T_SYNACK  == Shape("1", "1", "0", "0")
T_DATA    == Shape("0", "1", "0", "0")
T_RSTFULL == Shape("0", "0", "1", "0")
T_FINFULL == Shape("0", "1", "0", "1")
\* decoders that report only the flags that are set
T_ACK     == Shape(NoAttr, "1", NoAttr, NoAttr)
T_RST     == Shape(NoAttr, NoAttr, "1", NoAttr)
T_RSTACK  == Shape(NoAttr, "1", "1", NoAttr)
T_FIN     == Shape(NoAttr, "1", NoAttr, "1")
\* HTTP messages ride on data segments
T_REQ       == [T_DATA EXCEPT !.http = TRUE, !.request = TRUE, !.length = 200]
T_REQ_KA    == [T_REQ EXCEPT !.has_connection = TRUE,
                             !.connection = <<"K", "e", "e", "p", "-", "A", "l", "i", "v", "e">>]
T_RESP      == [T_DATA EXCEPT !.http = TRUE, !.response = TRUE, !.length = 300]
T_RESP_CLOSE == [T_RESP EXCEPT !.has_connection = TRUE, !.connection = StrClose]
T_RESP_CLOSE_UC == [T_RESP EXCEPT !.has_connection = TRUE,
                                  !.connection = <<"C", "l", "o", "s", "e">>]
T_RESP_KA   == [T_RESP EXCEPT !.has_connection = TRUE, !.connection = StrKeepAlive]
\* partially decoded packets
T_SYN_NOACK == Shape("1", NoAttr, NoAttr, NoAttr)
T_NOIP      == [T_DATA EXCEPT !.ip = FALSE]
T_NOTCP     == [T_DATA EXCEPT !.tcp = FALSE]
\* decoder analysis marks
T_RETRANS   == [T_DATA EXCEPT !.analysis_retransmission = TRUE]
T_UNSEEN    == [T_DATA EXCEPT !.analysis_acked_unseen_segment = TRUE]

MkPacket(shape, sid, dir, ts) ==
    LET from == IF dir = "c2s" THEN ClientOf(sid) ELSE ServerOf(sid)
        to   == IF dir = "c2s" THEN ServerOf(sid) ELSE ClientOf(sid)
    IN  [tcp |-> shape.tcp, ip |-> shape.ip,
         stream |-> sid,
         src |-> from.ip, dst |-> to.ip,
         srcport |-> from.port, dstport |-> to.port,
         flags_syn |-> shape.flags_syn, flags_ack |-> shape.flags_ack,
         flags_reset |-> shape.flags_reset, flags_fin |-> shape.flags_fin,
         sniff_timestamp |-> ts, length |-> shape.length,
         http |-> shape.http, request |-> shape.request, response |-> shape.response,
         has_connection |-> shape.has_connection, connection |-> shape.connection,
         request_method |-> "GET", request_uri |-> "/", response_code |-> "200",
         analysis_retransmission |-> shape.analysis_retransmission,
         analysis_acked_unseen_segment |-> shape.analysis_acked_unseen_segment]


(***************************************************************************)
(* wireshark3.py: the packet loop of analyze_fasthttp_tcp_behavior.        *)
(* The loop's variables are the fields of a record st; each operator below *)
(* is one block of the loop body and returns the record after the block.   *)
(***************************************************************************)

\* if stream_id not in tcp_streams: tcp_streams[stream_id] = {}
EnsureStream(streams, sid) ==
    IF DictHas(streams, sid) THEN streams ELSE DictSet(streams, sid, EmptyRec)

\* tcp_streams[stream_id][k] = v
SetField(streams, sid, k, v) ==
    DictSet(streams, sid, Put(DictGet(streams, sid), k, v))

\* tcp_ports_by_ip[ip][port].add(stream_id), creating the entries
AddPort(ports, ip, port, sid) ==
    LET byport == Get(ports, ip, EmptyRec)
    IN  Put(ports, ip, Put(byport, port, Get(byport, port, {}) \cup {sid}))

\* TrackPorts flagging the stream as soon as its own id is in a port's set
TrackPorts_Eager(st, p) ==
    LET ports == AddPort(AddPort(st.tcp_ports_by_ip, p.src, p.srcport, p.stream),
                         p.dst, p.dstport, p.stream)
    IN  [st EXCEPT
           !.tcp_ports_by_ip = ports,
           !.reused_connections =
               IF \/ Cardinality(ports[p.src][p.srcport]) > 0
                  \/ Cardinality(ports[p.dst][p.dstport]) > 0
               THEN @ \cup {p.stream} ELSE @]

\* lines 54-70: port use per address, and the reuse flag
TrackPorts(st, p) ==
    LET ports == AddPort(AddPort(st.tcp_ports_by_ip, p.src, p.srcport, p.stream),
                         p.dst, p.dstport, p.stream)
    IN  [st EXCEPT
           !.tcp_ports_by_ip = ports,
           !.reused_connections =
               IF \/ Cardinality(ports[p.src][p.srcport]) > 1
                  \/ Cardinality(ports[p.dst][p.dstport]) > 1
               THEN @ \cup {p.stream} ELSE @]

\* line 73 reads packet.tcp.flags_ack once flags_syn is '1': AttributeError
\* when the decoder gave no flags_ack
HandshakeRaises(p) == p.flags_syn = "1" /\ p.flags_ack = NoAttr

\* lines 72-87: handshake flags
TrackHandshake(st, p) ==
    LET sid == p.stream
        ts  == p.sniff_timestamp
        a == IF p.flags_syn # NoAttr /\ p.flags_syn = "1" /\ p.flags_ack = "0"
             THEN SetField(SetField(EnsureStream(st.tcp_streams, sid),
                                    sid, "has_syn", TRUE), sid, "syn_time", ts)
             ELSE st.tcp_streams
        b == IF p.flags_syn # NoAttr /\ p.flags_syn = "1" /\ p.flags_ack = "1"
             THEN SetField(EnsureStream(a, sid), sid, "has_syn_ack", TRUE)
             ELSE a
        c == IF p.flags_ack # NoAttr /\ p.flags_ack = "1" /\ p.flags_syn = NoAttr
             THEN SetField(EnsureStream(b, sid), sid, "has_ack", TRUE)
             ELSE b
    IN  [st EXCEPT !.tcp_streams = c]

\* CountRst counting streams instead of packets: the counter moves only for the
\* first RST of a stream
CountRst_PerStream(st, p) ==
    IF p.flags_reset # NoAttr /\ p.flags_reset = "1"
    THEN LET sid == p.stream
             ts  == p.sniff_timestamp
         IN  [st EXCEPT
                !.total_rst_packets =
                    IF DictHas(st.tcp_streams, sid)
                       /\ Has(DictGet(st.tcp_streams, sid), "has_rst")
                    THEN @ ELSE @ + 1,
                !.tcp_streams =
                    SetField(SetField(SetField(EnsureStream(@, sid),
                        sid, "has_rst", TRUE), sid, "rst_time", ts),
                        sid, "rst_from", p.src),
                !.rst_after_response =
                    IF DictHas(st.http_responses_by_stream, sid)
                    THEN Append(@, [stream_id |-> sid, time |-> ts,
                                    src |-> p.src, dst |-> p.dst])
                    ELSE @]
    ELSE st

\* lines 89-106: RST packets
CountRst(st, p) ==
    IF p.flags_reset # NoAttr /\ p.flags_reset = "1"
    THEN LET sid == p.stream
             ts  == p.sniff_timestamp
         IN  [st EXCEPT
                !.total_rst_packets = @ + 1,
                !.tcp_streams =
                    SetField(SetField(SetField(EnsureStream(@, sid),
                        sid, "has_rst", TRUE), sid, "rst_time", ts),
                        sid, "rst_from", p.src),
                !.rst_after_response =
                    IF DictHas(st.http_responses_by_stream, sid)
                    THEN Append(@, [stream_id |-> sid, time |-> ts,
                                    src |-> p.src, dst |-> p.dst])
                    ELSE @]
    ELSE st

\* CountFin marking the FIN on every stream record instead of the packet's own
CountFin_Broadcast(st, p) ==
    IF p.flags_fin # NoAttr /\ p.flags_fin = "1"
    THEN LET ts == p.sniff_timestamp
             Mark(entry) ==
                 <<entry[1], Put(Put(Put(entry[2], "has_fin", TRUE),
                                     "fin_time", ts), "fin_from", p.src)>>
         IN  [st EXCEPT
                !.total_fin_packets = @ + 1,
                !.tcp_streams =
                    LET all == EnsureStream(@, p.stream)
                    IN  [n \in DOMAIN all |-> Mark(all[n])]]
    ELSE st

\* lines 108-115: FIN packets
CountFin(st, p) ==
    IF p.flags_fin # NoAttr /\ p.flags_fin = "1"
    THEN LET sid == p.stream
             ts  == p.sniff_timestamp
         IN  [st EXCEPT
                !.total_fin_packets = @ + 1,
                !.tcp_streams =
                    SetField(SetField(SetField(EnsureStream(@, sid),
                        sid, "has_fin", TRUE), sid, "fin_time", ts),
                        sid, "fin_from", p.src)]
    ELSE st

\* TrackStream with the timestamp list kept only where the record already has
\* one: a record made by the handshake, RST or FIN block never gets the list
TrackStream_NoList(st, p) ==
    LET sid == p.stream
        ts  == p.sniff_timestamp
        rec == IF ~DictHas(st.tcp_streams, sid)
               THEN [packets |-> 0,
                     first_packet_time |-> ts,
                     last_packet_time |-> ts,
                     client_ip |-> p.src, server_ip |-> p.dst,
                     client_port |-> p.srcport, server_port |-> p.dstport,
                     packet_timestamps |-> <<ts>>]
               ELSE LET old == DictGet(st.tcp_streams, sid)
                    IN  IF Has(old, "packet_timestamps")
                        THEN Put(Put(old, "last_packet_time", ts),
                                 "packet_timestamps",
                                 Append(old["packet_timestamps"], ts))
                        ELSE Put(old, "last_packet_time", ts)
    IN  [st EXCEPT !.tcp_streams =
            DictSet(@, sid, Put(rec, "packets", Get(rec, "packets", 0) + 1))]

\* lines 117-135: packet count and times of the stream
TrackStream(st, p) ==
    LET sid == p.stream
        ts  == p.sniff_timestamp
        rec == IF ~DictHas(st.tcp_streams, sid)
               THEN [packets |-> 0,
                     first_packet_time |-> ts,
                     last_packet_time |-> ts,
                     client_ip |-> p.src, server_ip |-> p.dst,
                     client_port |-> p.srcport, server_port |-> p.dstport,
                     packet_timestamps |-> <<ts>>]
               ELSE LET old == DictGet(st.tcp_streams, sid)
                    IN  Put(Put(old, "last_packet_time", ts),
                            "packet_timestamps",
                            Append(Get(old, "packet_timestamps", << >>), ts))
    IN  [st EXCEPT !.tcp_streams =
            DictSet(@, sid, Put(rec, "packets", Get(rec, "packets", 0) + 1))]

\* dict.setdefault-like: if stream_id not in d: d[stream_id] = []
EnsureList(d, sid) == IF DictHas(d, sid) THEN d ELSE DictSet(d, sid, << >>)

\* lines 139-160: an HTTP request
TrackRequest(st, p) ==
    LET sid == p.stream
        request_info ==
            [time |-> p.sniff_timestamp,
             method |-> p.request_method,
             uri |-> p.request_uri,
             connection |-> IF p.has_connection THEN p.connection
                            ELSE <<"default-keepalive">>]
        reqs == EnsureList(st.http_requests_by_stream, sid)
    IN  [st EXCEPT
           !.keepalive_connections =
               IF p.has_connection
               THEN IF Contains(Lower(p.connection), StrKeepAlive)
                    THEN @ \cup {sid} ELSE @
               ELSE @ \cup {sid},
           !.http_requests_by_stream =
               DictSet(reqs, sid, Append(DictGet(reqs, sid), request_info))]

\* lines 162-178: an HTTP response
TrackResponse(st, p) ==
    LET sid == p.stream
        base == [time |-> p.sniff_timestamp, status_code |-> p.response_code]
        response_info ==
            IF p.has_connection THEN Put(base, "connection", p.connection) ELSE base
        resps == EnsureList(st.http_responses_by_stream, sid)
    IN  [st EXCEPT
           !.connection_close_headers =
               IF p.has_connection /\ Contains(Lower(p.connection), StrClose)
               THEN @ + 1 ELSE @,
           !.http_responses_by_stream =
               DictSet(resps, sid, Append(DictGet(resps, sid), response_info))]

\* lines 137-178
TrackHttp(st, p) ==
    IF p.http
    THEN LET a == IF p.request THEN TrackRequest(st, p) ELSE st
         IN  IF p.response THEN TrackResponse(a, p) ELSE a
    ELSE st

\* lines 180-192: decoder analysis marks and RST+ACK
TrackAnalysis(st, p) ==
    [st EXCEPT
       !.retransmissions = IF p.analysis_retransmission THEN @ + 1 ELSE @,
       !.acked_unseen_segments =
           IF p.analysis_acked_unseen_segment THEN @ + 1 ELSE @,
       !.rst_ack_packets =
           IF /\ p.flags_reset # NoAttr /\ p.flags_reset = "1"
              /\ p.flags_ack # NoAttr /\ p.flags_ack = "1"
           THEN @ + 1 ELSE @]

\* Except3 without the error line
Except3_Quiet(st) == st

\* lines 194-195: the handler of the loop body's try; the packet is given up
\* where it raised, one error line is printed and the loop goes on
Except3(st) == [st EXCEPT !.errors = @ + 1]

\* lines 43-195: the loop body for one packet
Process3(st, p) ==
    IF ~p.tcp THEN st
    ELSE IF ~p.ip THEN Except3(st)
    ELSE LET ported == TrackPorts(st, p)
         IN  IF HandshakeRaises(p) THEN Except3(ported)
             ELSE TrackAnalysis(TrackHttp(TrackStream(CountFin(CountRst(
                      TrackHandshake(ported, p), p), p), p), p), p)

\* lines 13-36: the loop's variables before the first packet
Init3 ==
    [tcp_streams |-> << >>,
     http_requests_by_stream |-> << >>,
     http_responses_by_stream |-> << >>,
     rst_after_response |-> << >>,
     keepalive_connections |-> {},
     total_rst_packets |-> 0,
     total_fin_packets |-> 0,
     connection_close_headers |-> 0,
     retransmissions |-> 0,
     reused_connections |-> {},
     tcp_ports_by_ip |-> EmptyRec,
     acked_unseen_segments |-> 0,
     rst_ack_packets |-> 0,
     errors |-> 0]

\* Loop3 with the tables emptied whenever the loop is entered
Loop3_Restart(st, packets) ==
    LET run[n \in 0..Len(packets)] ==
            IF n = 0 THEN Init3 ELSE Process3(run[n - 1], packets[n])
    IN  run[Len(packets)]

\* lines 38-195: the for loop over the packets, entered with the tables st
Loop3(st, packets) ==
    LET run[n \in 0..Len(packets)] ==
            IF n = 0 THEN st ELSE Process3(run[n - 1], packets[n])
    IN  run[Len(packets)]


(***************************************************************************)
(* wireshark3.py: the pass over the finished collections, lines 197-359.   *)
(***************************************************************************)

\* thresholds of the script, in units of 10 ms
IdleFactor == 5

IdleFloor == 100

ShortLived == 50

BucketFast == 1

BucketQuick == 10

BucketSlow == 100

\* HandshakeIsPartial without the test of has_ack
HandshakeIsPartial_NoAck(stream_data) ==
    \/ ~Has(stream_data, "has_syn")
    \/ ~Has(stream_data, "has_syn_ack")

\* line 200
HandshakeIsPartial(stream_data) ==
    \/ ~Has(stream_data, "has_syn")
    \/ ~Has(stream_data, "has_syn_ack")
    \/ ~Has(stream_data, "has_ack")

\* lines 198-203
PartialHandshakes(st) ==
    LET Partial(sid) == HandshakeIsPartial(DictGet(st.tcp_streams, sid))
    IN  SelectSeq(DictKeys(st.tcp_streams), Partial)

CompleteHandshakes(st) ==
    LET Complete(sid) == ~HandshakeIsPartial(DictGet(st.tcp_streams, sid))
    IN  SelectSeq(DictKeys(st.tcp_streams), Complete)

\* line 207: the streams whose idle gaps are looked at
HasGaps(stream_data) ==
    /\ Has(stream_data, "packet_timestamps")
    /\ Len(stream_data["packet_timestamps"]) > 1

\* lines 208-209: the gaps between the sorted timestamps, which are the floats
\* of lines 127 and 133 (float() keeps the order of the decimal strings)
RECURSIVE Floats(_)
Floats(s) ==
    IF s = << >> THEN << >>
    ELSE Append(Floats(SubSeq(s, 1, Len(s) - 1)), Float(s[Len(s)]))

RECURSIVE Differences(_)
Differences(s) ==
    IF Len(s) < 2 THEN << >>
    ELSE Append(Differences(SubSeq(s, 1, Len(s) - 1)),
                FSub(s[Len(s)], s[Len(s) - 1]))

TimeDiffs(stream_data) ==
    Differences(Floats(Sorted(stream_data["packet_timestamps"])))

\* line 213
AvgIdle(time_diffs) == FDiv(FSum(time_diffs), Len(time_diffs))

\* line 217: max_idle > avg_idle * 5 and max_idle > 1.0
SignificantIdle(time_diffs) ==
    LET max_idle == FMax(time_diffs)
    IN  /\ FLess(Float(IdleFloor), max_idle)
        /\ FLess(FMul(AvgIdle(time_diffs), IdleFactor), max_idle)

\* line 212 for each of the streams ids, in their order
RECURSIVE MaxIdles(_, _)
MaxIdles(st, ids) ==
    IF ids = << >> THEN << >>
    ELSE Append(MaxIdles(st, SubSeq(ids, 1, Len(ids) - 1)),
                FMax(TimeDiffs(DictGet(st.tcp_streams, ids[Len(ids)]))))

\* lines 206-214: idle_periods
IdlePeriods(st) ==
    LET Gaps(sid) == HasGaps(DictGet(st.tcp_streams, sid))
    IN  MaxIdles(st, SelectSeq(DictKeys(st.tcp_streams), Gaps))

\* lines 206-225: silently_terminated_streams
SilentlyTerminated(st) ==
    LET Flagged(sid) ==
            LET stream_data == DictGet(st.tcp_streams, sid)
            IN  /\ HasGaps(stream_data)
                /\ DictHas(st.http_requests_by_stream, sid)
                /\ SignificantIdle(TimeDiffs(stream_data))
        ids == SelectSeq(DictKeys(st.tcp_streams), Flagged)
        Entry(sid) ==
            LET time_diffs == TimeDiffs(DictGet(st.tcp_streams, sid))
            IN  [stream_id |-> sid,
                 max_idle |-> FMax(time_diffs),
                 avg_idle |-> AvgIdle(time_diffs),
                 requests |-> Len(DictGet(st.http_requests_by_stream, sid)),
                 responses |-> IF DictHas(st.http_responses_by_stream, sid)
                               THEN Len(DictGet(st.http_responses_by_stream, sid))
                               ELSE 0]
    IN  [n \in DOMAIN ids |-> Entry(ids[n])]

\* RstStreamsAfterResponse keeping only the streams that have a request
RstStreamsAfterResponse_Requested(st) ==
    {st.rst_after_response[n].stream_id : n \in DOMAIN st.rst_after_response}
        \cap DictKeySet(st.http_requests_by_stream)

\* line 243
RstStreamsAfterResponse(st) ==
    {st.rst_after_response[n].stream_id : n \in DOMAIN st.rst_after_response}

\* line 249 raises KeyError on a stream record without 'first_packet_time'
\* (or 'last_packet_time'); nothing catches it and the analysis ends there
DurationRaises(st) ==
    \E n \in DOMAIN st.tcp_streams :
        \/ ~Has(st.tcp_streams[n][2], "last_packet_time")
        \/ ~Has(st.tcp_streams[n][2], "first_packet_time")

\* lines 247-253
StreamDurations(st) ==
    SortBySecond([n \in DOMAIN st.tcp_streams |->
        <<st.tcp_streams[n][1],
          st.tcp_streams[n][2]["last_packet_time"]
              - st.tcp_streams[n][2]["first_packet_time"]>>])

\* lines 256-259
ShortStreams(st) ==
    LET Short(d) ==
            /\ d[2] < ShortLived
            /\ \/ DictHas(st.http_requests_by_stream, d[1])
               \/ DictHas(st.http_responses_by_stream, d[1])
    IN  SelectSeq(StreamDurations(st), Short)

\* IncompleteStreams asking the stream record for an RST instead of the list of
\* RSTs that came after a response
IncompleteStreams_AnyRst(st) ==
    LET Incomplete(sid) ==
            /\ ~DictHas(st.http_responses_by_stream, sid)
            /\ DictHas(st.tcp_streams, sid)
            /\ Has(DictGet(st.tcp_streams, sid), "has_rst")
    IN  SelectSeq(DictKeys(st.http_requests_by_stream), Incomplete)

\* lines 264-267
IncompleteStreams(st) ==
    LET Incomplete(sid) ==
            /\ ~DictHas(st.http_responses_by_stream, sid)
            /\ sid \in RstStreamsAfterResponse(st)
    IN  SelectSeq(DictKeys(st.http_requests_by_stream), Incomplete)

\* lines 272-284
TimingIssues(st) ==
    LET Timed(item) ==
            /\ DictHas(st.http_responses_by_stream, item.stream_id)
            /\ DictGet(st.http_responses_by_stream, item.stream_id) # << >>
        items == SelectSeq(st.rst_after_response, Timed)
        LastResponseTime(sid) ==
            LET resps == DictGet(st.http_responses_by_stream, sid)
            IN  MaxOfSeq([n \in DOMAIN resps |-> resps[n]["time"]])
    IN  SortBySecond([n \in DOMAIN items |->
            <<items[n].stream_id,
              items[n].time - LastResponseTime(items[n].stream_id)>>])

\* BucketOf with the boundary values kept in the lower bucket
BucketOf_Inclusive(time_to_rst) ==
    IF time_to_rst <= BucketFast THEN "< 0.01s"
    ELSE IF time_to_rst <= BucketQuick THEN "0.01s - 0.1s"
    ELSE IF time_to_rst <= BucketSlow THEN "0.1s - 1s"
    ELSE "> 1s"

\* lines 298-306: the bucket of one delay
BucketOf(time_to_rst) ==
    IF time_to_rst < BucketFast THEN "< 0.01s"
    ELSE IF time_to_rst < BucketQuick THEN "0.01s - 0.1s"
    ELSE IF time_to_rst < BucketSlow THEN "0.1s - 1s"
    ELSE "> 1s"

BucketNames == {"< 0.01s", "0.01s - 0.1s", "0.1s - 1s", "> 1s"}

\* lines 291-306
TimeRanges(timing_issues) ==
    [b \in BucketNames |->
        Cardinality({n \in DOMAIN timing_issues : BucketOf(timing_issues[n][2]) = b})]


\* The results of the pass.  Line 249 is reached after the handshake lists, the
\* idle analysis and rst_streams_after_response are built; when it raises, the
\* later lists are never built.
NoReport3 ==
    [partial_handshakes |-> << >>,
     complete_handshakes |-> << >>,
     idle_periods |-> << >>,
     silently_terminated_streams |-> << >>,
     rst_streams_after_response |-> {},
     stream_durations |-> << >>,
     short_streams |-> << >>,
     incomplete_streams |-> << >>,
     timing_issues |-> << >>,
     time_ranges |-> [b \in BucketNames |-> 0],
     keepalive_rst |-> {},
     silence_issue |-> FALSE]

\* lines 197-243
ReportHead3(st) ==
    [NoReport3 EXCEPT
       !.partial_handshakes = PartialHandshakes(st),
       !.complete_handshakes = CompleteHandshakes(st),
       !.idle_periods = IdlePeriods(st),
       !.silently_terminated_streams = SilentlyTerminated(st),
       !.rst_streams_after_response = RstStreamsAfterResponse(st)]

\* lines 246-359
ReportTail3(st, head) ==
    [head EXCEPT
       !.stream_durations = StreamDurations(st),
       !.short_streams = ShortStreams(st),
       !.incomplete_streams = IncompleteStreams(st),
       !.timing_issues = TimingIssues(st),
       !.time_ranges = TimeRanges(TimingIssues(st)),
       !.keepalive_rst = st.keepalive_connections \cap RstStreamsAfterResponse(st),
       !.silence_issue =
           \/ Len(head.silently_terminated_streams) > 0
           \/ (st.total_rst_packets > 0 /\ st.connection_close_headers = 0)
           \/ (st.acked_unseen_segments > 0 /\ Len(ShortStreams(st)) > 0)]

\* lines 197-359
PostPass3(st) ==
    IF DurationRaises(st) THEN ReportHead3(st) ELSE ReportTail3(st, ReportHead3(st))

(***************************************************************************)
(* wireshark1.py: the packet loop of analyze_fasthttp_connections.         *)
(* Connections are keyed by the packet's own 4-tuple; each block looks the *)
(* packet up under its forward and its reverse key.                        *)
(***************************************************************************)

\* lines 39-40
ConnKeyForward(p) == <<p.src, p.srcport, p.dst, p.dstport>>

ConnKeyReverse(p) == <<p.dst, p.dstport, p.src, p.srcport>>

\* lines 43 and 61 read packet.tcp.flags_ack without asking whether the decoder
\* gave it: AttributeError, before anything is recorded for the packet
Raises1(p) == p.flags_ack = NoAttr

\* lines 64-66 for one key
EstablishKey(st, key, p) ==
    IF DictHas(st.connections, key)
       /\ ~Get(DictGet(st.connections, key), "established", FALSE)
    THEN LET conn == DictGet(st.connections, key)
         IN  [st EXCEPT !.connections = DictSet(@, key,
                Put(Put(Put(conn, "established", TRUE),
                    "packets", Get(conn, "packets", 0) + 1),
                    "bytes", Get(conn, "bytes", 0) + p.length))]
    ELSE st

\* lines 42-66: the if / elif / elif chain
TrackEstablishment1(st, p) ==
    IF p.flags_syn # NoAttr /\ p.flags_syn = "1" /\ p.flags_ack = "0"
    THEN [st EXCEPT
            !.connections = DictSet(@, ConnKeyForward(p),
                [start_time |-> p.sniff_timestamp,
                 syn_sent |-> TRUE,
                 established |-> FALSE,
                 packets |-> 1,
                 bytes |-> p.length]),
            !.total_connections = @ + 1]
    ELSE IF p.flags_syn # NoAttr /\ p.flags_syn = "1" /\ p.flags_ack = "1"
    THEN IF DictHas(st.connections, ConnKeyReverse(p))
         THEN LET conn == DictGet(st.connections, ConnKeyReverse(p))
              IN  [st EXCEPT !.connections = DictSet(@, ConnKeyReverse(p),
                     Put(Put(Put(conn, "syn_ack_received", TRUE),
                         "packets", Get(conn, "packets", 0) + 1),
                         "bytes", Get(conn, "bytes", 0) + p.length))]
         ELSE st
    ELSE IF p.flags_ack = "1" /\ p.flags_syn = NoAttr
    THEN EstablishKey(EstablishKey(st, ConnKeyForward(p), p), ConnKeyReverse(p), p)
    ELSE st

\* lines 74-75 and 83-84: the end of a connection
EndConnection(conn, ts) ==
    Put(Put(conn, "end_time", ts), "duration", ts - conn["start_time"])

\* lines 72-75 for one key
ResetKey(st, key, p) ==
    IF DictHas(st.connections, key)
    THEN [st EXCEPT
            !.connection_ends = Put(@, key, "RST"),
            !.connections = DictSet(@, key,
                EndConnection(DictGet(@, key), p.sniff_timestamp))]
    ELSE st

\* lines 68-75
TrackReset1(st, p) ==
    IF p.flags_reset # NoAttr /\ p.flags_reset = "1"
    THEN ResetKey(ResetKey([st EXCEPT !.rst_count = @ + 1],
                           ConnKeyForward(p), p), ConnKeyReverse(p), p)
    ELSE st

\* lines 81-84 for one key
FinKey(st, key, p) ==
    IF DictHas(st.connections, key) /\ ~Has(st.connection_ends, key)
    THEN [st EXCEPT
            !.connection_ends = Put(@, key, "FIN"),
            !.connections = DictSet(@, key,
                EndConnection(DictGet(@, key), p.sniff_timestamp))]
    ELSE st

\* lines 77-84
TrackFin1(st, p) ==
    IF p.flags_fin # NoAttr /\ p.flags_fin = "1"
    THEN FinKey(FinKey([st EXCEPT !.fin_count = @ + 1],
                       ConnKeyForward(p), p), ConnKeyReverse(p), p)
    ELSE st

\* lines 91-96 for one key
RequestKey(st, key, p) ==
    IF DictHas(st.connections, key)
    THEN [st EXCEPT !.connections = DictSet(@, key,
            Put(Put(Put(DictGet(@, key), "has_http_request", TRUE),
                "http_method", p.request_method), "http_uri", p.request_uri))]
    ELSE st

\* lines 101-110 for one key
ResponseKey(st, key, p) ==
    IF DictHas(st.connections, key)
    THEN LET conn == Put(Put(DictGet(st.connections, key),
                         "has_http_response", TRUE), "http_status", p.response_code)
             closes == p.has_connection /\ Contains(Lower(p.connection), StrClose)
         IN  [st EXCEPT
                !.http_responses = Put(@, key, p.response_code),
                !.connections = DictSet(@, key,
                    IF closes THEN Put(conn, "has_connection_close", TRUE) ELSE conn),
                !.connection_close_headers = IF closes THEN @ + 1 ELSE @]
    ELSE st

\* lines 86-110
TrackHttp1(st, p) ==
    IF p.http
    THEN LET a == IF p.request
                  THEN RequestKey(RequestKey([st EXCEPT !.http_requests = @ + 1],
                                  ConnKeyForward(p), p), ConnKeyReverse(p), p)
                  ELSE st
         IN  IF p.response
             THEN ResponseKey(ResponseKey([a EXCEPT !.http_responses_count = @ + 1],
                              ConnKeyForward(p), p), ConnKeyReverse(p), p)
             ELSE a
    ELSE st

\* lines 112-113
Except1(st) == [st EXCEPT !.errors = @ + 1]

\* lines 31-113: the loop body for one packet
Process1(st, p) ==
    IF ~p.tcp THEN st
    ELSE IF ~p.ip \/ Raises1(p) THEN Except1(st)
    ELSE TrackHttp1(TrackFin1(TrackReset1(TrackEstablishment1(st, p), p), p), p)

\* lines 13-23
Init1 ==
    [connections |-> << >>,
     connection_ends |-> EmptyRec,
     http_responses |-> EmptyRec,
     rst_count |-> 0,
     fin_count |-> 0,
     total_connections |-> 0,
     http_requests |-> 0,
     http_responses_count |-> 0,
     connection_close_headers |-> 0,
     errors |-> 0]

\* lines 26-113: the for loop over the packets, entered with the tables st
Loop1(st, packets) ==
    LET run[n \in 0..Len(packets)] ==
            IF n = 0 THEN st ELSE Process1(run[n - 1], packets[n])
    IN  run[Len(packets)]

(***************************************************************************)
(* wireshark1.py: the report after the loop (lines 115-203)                *)
(***************************************************************************)

\* line 125
RstConnections(st) ==
    LET Reset(key) == Get(st.connection_ends, key, "") = "RST"
    IN  SelectSeq(DictKeys(st.connections), Reset)

\* lines 146-151
ProblematicConnections(st) ==
    LET Problematic(key) ==
            /\ Get(st.connection_ends, key, "") = "RST"
            /\ Get(DictGet(st.connections, key), "has_http_response", FALSE)
            /\ ~Get(DictGet(st.connections, key), "has_connection_close", FALSE)
    IN  SelectSeq(DictKeys(st.connections), Problematic)

\* line 163 formats conn.get('duration', 'N/A') with :.6f for the first five
\* problematic connections: ValueError on the string 'N/A'
SampleSize == 5

FormatRaises1(st) ==
    LET sample == ProblematicConnections(st)
    IN  \E n \in DOMAIN sample :
            /\ n <= SampleSize
            /\ ~Has(DictGet(st.connections, sample[n]), "duration")

\* line 192: rst_percentage > 0.5, the percentage being
\* rst_count / total_connections * 100, or 0 without connections
RstPercentageHigh(st) ==
    /\ st.total_connections > 0
    /\ st.rst_count * 200 > st.total_connections

\* line 199 divides by http_responses_count before testing it:
\* ZeroDivisionError
RatioRaises1(st) ==
    /\ st.rst_count > 0
    /\ RstPercentageHigh(st)
    /\ st.http_responses_count = 0

NoReport1 ==
    [rst_connections |-> << >>,
     problematic_connections |-> << >>,
     error |-> "none"]

\* lines 115-203
PostLoop1(st) ==
    [rst_connections |-> RstConnections(st),
     problematic_connections |-> ProblematicConnections(st),
     error |-> IF FormatRaises1(st) THEN "ValueError"
               ELSE IF RatioRaises1(st) THEN "ZeroDivisionError"
               ELSE "none"]

(***************************************************************************)
(* The state machine                                                       *)
(***************************************************************************)
VARIABLES
    ws3,        \* wireshark3.py: the variables of the packet loop
    report3,    \* wireshark3.py: what the pass after the loop has built
    ws1,        \* wireshark1.py: the variables of the packet loop
    pc,         \* "ingest" while packets are read, then "done" or "crashed"
    now,        \* capture time of the last packet read
    npackets,   \* number of packets read from the capture
    fed,        \* the packets read so far, kept when both scripts read the capture
    report1,    \* wireshark1.py: what the report after the loop has built
    pc1         \* wireshark1.py: "ingest", then "done" or "crashed"

vars == <<ws3, report3, ws1, pc, now, npackets, fed, report1, pc1>>

Init ==
    /\ ws3 = Init3
    /\ report3 = NoReport3
    /\ ws1 = Init1
    /\ pc = "ingest"
    /\ now = 0
    /\ npackets = 0
    /\ fed = << >>
    /\ report1 = NoReport1
    /\ pc1 = "ingest"

\* One more packet of the capture, in capture order, goes through the loop
\* body of wireshark3.py.
Feed3(kinds, streams, times, max) ==
    /\ pc = "ingest"
    /\ npackets < max
    /\ \E k \in kinds, sid \in streams, ts \in times :
          /\ ts >= now
          /\ ws3' = Process3(ws3, MkPacket(k[1], sid, k[2], ts))
          /\ now' = ts
    /\ npackets' = npackets + 1
    /\ UNCHANGED <<report3, ws1, pc, fed, report1, pc1>>

\* Analyze3 with a pass that empties rst_after_response as it reads it
Analyze3_Draining ==
    /\ pc = "ingest"
    /\ report3' = PostPass3(ws3)
    /\ pc' = IF DurationRaises(ws3) THEN "crashed" ELSE "done"
    /\ ws3' = [ws3 EXCEPT !.rst_after_response = << >>]
    /\ UNCHANGED <<ws1, now, npackets, fed, report1, pc1>>

\* The capture is exhausted: the pass of lines 197-359 runs, to its end or to
\* the KeyError of line 249.
Analyze3 ==
    /\ pc = "ingest"
    /\ report3' = PostPass3(ws3)
    /\ pc' = IF DurationRaises(ws3) THEN "crashed" ELSE "done"
    /\ UNCHANGED <<ws3, ws1, now, npackets, fed, report1, pc1>>

\* bounds of the general capture
MaxPackets == 3

MainStreams == {"0", "1"}

MainTimes == {0, 40}

MainKinds ==
    {<<T_SYN, "c2s">>, <<T_SYNACK, "s2c">>, <<T_ACK, "c2s">>, <<T_DATA, "s2c">>,
     <<T_REQ, "c2s">>, <<T_RESP, "s2c">>, <<T_RESP_CLOSE, "s2c">>,
     <<T_RST, "s2c">>, <<T_FIN, "c2s">>, <<T_SYN_NOACK, "c2s">>}

Observe3 == Feed3(MainKinds, MainStreams, MainTimes, MaxPackets)

Next == Observe3 \/ Analyze3

Spec == Init /\ [][Next]_vars


\* One more packet of the capture, in capture order, goes through the loop
\* body of wireshark1.py.
Feed1(kinds, streams, times, max) ==
    /\ pc1 = "ingest"
    /\ npackets < max
    /\ \E k \in kinds, sid \in streams, ts \in times :
          /\ ts >= now
          /\ ws1' = Process1(ws1, MkPacket(k[1], sid, k[2], ts))
          /\ now' = ts
    /\ npackets' = npackets + 1
    /\ UNCHANGED <<ws3, report3, pc, fed, report1, pc1>>

\* bounds of the capture given to wireshark1.py: two connections with
\* different 4-tuples
MaxConnPackets == 4

ConnStreams == {"0", "2"}

ConnTimes == {0, 40}

ConnKinds ==
    {<<T_SYN, "c2s">>, <<T_SYNACK, "s2c">>, <<T_ACK, "c2s">>,
     <<T_RESP, "s2c">>, <<T_RESP_CLOSE, "s2c">>,
     <<T_RSTACK, "s2c">>, <<T_FIN, "c2s">>, <<T_RST, "s2c">>}

Observe1 == Feed1(ConnKinds, ConnStreams, ConnTimes, MaxConnPackets)

SpecConn == Init /\ [][Observe1]_vars

\* The capture is exhausted: the report of lines 115-203 is made, to its end
\* or to the ValueError of line 163 or the ZeroDivisionError of line 199.
Analyze1 ==
    /\ pc1 = "ingest"
    /\ report1' = PostLoop1(ws1)
    /\ pc1' = IF PostLoop1(ws1).error = "none" THEN "done" ELSE "crashed"
    /\ UNCHANGED <<ws3, report3, ws1, pc, now, npackets, fed>>

NextConn == Observe1 \/ Analyze1

SpecConnReport == Init /\ [][NextConn]_vars

\* bounds of the capture for the idle analysis of wireshark3.py: one stream,
\* packets at 0 s, 0.1 s, 0.2 s and 50 s
MaxIdlePackets == 7

IdleStreams == {"0"}

IdleTimes == {0, 10, 20, 5000}

IdleKinds == {<<T_DATA, "c2s">>, <<T_REQ, "c2s">>, <<T_FINFULL, "s2c">>}

ObserveIdle == Feed3(IdleKinds, IdleStreams, IdleTimes, MaxIdlePackets)

NextIdle == ObserveIdle \/ Analyze3

SpecIdle == Init /\ [][NextIdle]_vars

\* bounds of the capture for the idle analysis of short streams: one stream,
\* packets at 0 s, 1.64 s and 2 s
MaxGapPackets == 7

GapStreams == {"0"}

GapTimes == {0, 164, 200}

GapKinds == {<<T_DATA, "c2s">>, <<T_REQ, "c2s">>}

ObserveGaps == Feed3(GapKinds, GapStreams, GapTimes, MaxGapPackets)

NextGaps == ObserveGaps \/ Analyze3

SpecGaps == Init /\ [][NextGaps]_vars

\* bounds of the capture for the timing histogram of wireshark3.py: one stream,
\* packets at 0 s, 0.01 s, 0.1 s and 1 s
MaxTimingPackets == 3

TimingStreams == {"0"}

TimingTimes == {0, 1, 10, 100}

TimingKinds == {<<T_DATA, "c2s">>, <<T_RESP, "s2c">>, <<T_RSTFULL, "s2c">>}

ObserveTiming == Feed3(TimingKinds, TimingStreams, TimingTimes, MaxTimingPackets)

NextTiming == ObserveTiming \/ Analyze3

SpecTiming == Init /\ [][NextTiming]_vars

\* One more packet of the capture, in capture order, goes through the loop
\* body of wireshark3.py and through the loop body of wireshark1.py: the two
\* scripts read the same capture file.
FeedBoth(kinds, streams, times, max) ==
    /\ pc = "ingest"
    /\ pc1 = "ingest"
    /\ npackets < max
    /\ \E k \in kinds, sid \in streams, ts \in times :
          /\ ts >= now
          /\ ws3' = Process3(ws3, MkPacket(k[1], sid, k[2], ts))
          /\ ws1' = Process1(ws1, MkPacket(k[1], sid, k[2], ts))
          /\ fed' = Append(fed, MkPacket(k[1], sid, k[2], ts))
          /\ now' = ts
    /\ npackets' = npackets + 1
    /\ UNCHANGED <<report3, pc, report1, pc1>>

\* bounds of the capture read by both scripts: two connections with different
\* 4-tuples, either side may open
MaxLogPackets == 3

LogStreams == {"0", "2"}

LogTimes == {0, 40}

LogKinds ==
    {<<T_SYN, "c2s">>, <<T_SYN, "s2c">>, <<T_SYNACK, "s2c">>, <<T_ACK, "c2s">>,
     <<T_DATA, "c2s">>, <<T_RSTACK, "s2c">>, <<T_RST, "s2c">>, <<T_FIN, "c2s">>,
     <<T_RESP, "s2c">>, <<T_RESP_CLOSE_UC, "s2c">>}

ObserveBoth == FeedBoth(LogKinds, LogStreams, LogTimes, MaxLogPackets)

SpecLog == Init /\ [][ObserveBoth]_vars

\* bounds of the capture of interleaved flows read by both scripts: streams
\* "0" and "1" use the same two endpoints one after the other, stream "2" others
MaxShardPackets == 3

ShardStreams == {"0", "1", "2"}

ShardTimes == {0, 40}

ShardKinds ==
    {<<T_SYN, "c2s">>, <<T_REQ, "c2s">>, <<T_RESP, "s2c">>,
     <<T_RSTACK, "s2c">>, <<T_FIN, "c2s">>}

ObserveShards == FeedBoth(ShardKinds, ShardStreams, ShardTimes, MaxShardPackets)

SpecShard == Init /\ [][ObserveShards]_vars

\* bounds of the capture for the port-reuse flag of wireshark3.py: streams "0"
\* and "1" between the same endpoints, stream "2" between others, packets in
\* both directions, some of them given up by the loop body
MaxReusePackets == 3

ReuseStreams == {"0", "1", "2"}

ReuseTimes == {0}

ReuseKinds ==
    {<<T_DATA, "c2s">>, <<T_DATA, "s2c">>, <<T_SYN_NOACK, "c2s">>,
     <<T_NOIP, "c2s">>}

ObserveReuse == FeedBoth(ReuseKinds, ReuseStreams, ReuseTimes, MaxReusePackets)

SpecReuse == Init /\ [][ObserveReuse]_vars

\* bounds of the captures of one connection that opens with SYN, SYN+ACK and
\* ACK, carries a request or a response, and ends by RST or FIN; the ACK and
\* the last packets as either kind of decoder reports them
MaxScenarioPackets == 6

ScenarioStreams == {"0"}

ScenarioTimes == {0, 40}

ScenarioKindsAt(n) ==
    IF n = 1 THEN {<<T_SYN, "c2s">>}
    ELSE IF n = 2 THEN {<<T_SYNACK, "s2c">>}
    ELSE IF n = 3 THEN {<<T_ACK, "c2s">>, <<T_DATA, "c2s">>}
    ELSE IF n = 4 THEN {<<T_REQ, "c2s">>, <<T_RESP, "s2c">>}
    ELSE IF n = 5 THEN {<<T_RESP_CLOSE, "s2c">>, <<T_RSTFULL, "s2c">>,
                        <<T_RSTACK, "s2c">>, <<T_RST, "s2c">>}
    ELSE {<<T_FINFULL, "c2s">>, <<T_FIN, "c2s">>}

ObserveScenario ==
    FeedBoth(ScenarioKindsAt(npackets + 1), ScenarioStreams, ScenarioTimes,
             MaxScenarioPackets)

NextScenario == ObserveScenario \/ Analyze3 \/ Analyze1

SpecScenario == Init /\ [][NextScenario]_vars

\* bounds of the capture that is split in two: two streams between the same
\* endpoints, with a packet the loop body gives up
MaxSplitPackets == 3

SplitStreams == {"0", "1"}

SplitTimes == {0, 40}

SplitKinds ==
    {<<T_SYN, "c2s">>, <<T_RESP, "s2c">>, <<T_RSTACK, "s2c">>,
     <<T_SYN_NOACK, "c2s">>}

ObserveSplit == FeedBoth(SplitKinds, SplitStreams, SplitTimes, MaxSplitPackets)

SpecSplit == Init /\ [][ObserveSplit]_vars

\* bounds of the capture with partially decoded packets, read by both scripts
MaxSkipPackets == 3

SkipStreams == {"0", "2"}

SkipTimes == {0, 40}

SkipKinds ==
    {<<T_NOIP, "c2s">>, <<T_SYN_NOACK, "c2s">>, <<T_NOTCP, "c2s">>,
     <<T_DATA, "c2s">>, <<T_RST, "s2c">>, <<T_REQ, "c2s">>}

ObserveSkips == FeedBoth(SkipKinds, SkipStreams, SkipTimes, MaxSkipPackets)

SpecSkip == Init /\ [][ObserveSkips]_vars


(***************************************************************************)
(* Properties                                                              *)
(***************************************************************************)

\* the record wireshark3.py keeps for a stream
Stream3(sid) == DictGet(ws3.tcp_streams, sid)

Streams3 == DictKeySet(ws3.tcp_streams)

Requests3(sid) ==
    IF DictHas(ws3.http_requests_by_stream, sid)
    THEN DictGet(ws3.http_requests_by_stream, sid) ELSE << >>

Responses3(sid) ==
    IF DictHas(ws3.http_responses_by_stream, sid)
    THEN DictGet(ws3.http_responses_by_stream, sid) ELSE << >>

\* some response record of the stream carries a connection header with 'close'
HasCloseResponse3(sid) ==
    \E n \in DOMAIN Responses3(sid) :
        /\ Has(Responses3(sid)[n], "connection")
        /\ Contains(Lower(Responses3(sid)[n]["connection"]), StrClose)

\* the packets the capture given to wireshark1.py is made of
ConnPackets ==
    {MkPacket(k[1], sid, k[2], ts) : k \in ConnKinds, sid \in ConnStreams, ts \in ConnTimes}

IsTerminating(p) ==
    \/ (p.flags_reset # NoAttr /\ p.flags_reset = "1")
    \/ (p.flags_fin # NoAttr /\ p.flags_fin = "1")

\* C1 (wireshark1.py): first terminating signal wins.  Once a connection has
\* an entry in connection_ends, processing a later FIN or RST packet changes
\* neither the recorded cause nor the recorded end time of that connection.
C1_FirstTerminationWins ==
    [][\A p \in ConnPackets :
          (IsTerminating(p) /\ ws1' = Process1(ws1, p)) =>
              \A key \in DOMAIN ws1.connection_ends :
                  /\ ws1'.connection_ends[key] = ws1.connection_ends[key]
                  /\ Get(DictGet(ws1'.connections, key), "end_time", -1)
                       = Get(DictGet(ws1.connections, key), "end_time", -1)]_vars

\* C2 (wireshark3.py): after the capture is read, a stream is in the set of
\* streams reset after a response exactly if it was ended by RST, has at least
\* one response record and has no response record carrying 'close'.  Stated
\* for the streams on which no FIN was seen, where "ended by RST" is has_rst.
C2_RstAfterResponseIffNoClose ==
    pc # "ingest" =>
        \A sid \in Streams3 :
            ~Has(Stream3(sid), "has_fin") =>
                (sid \in report3.rst_streams_after_response
                   <=> /\ Has(Stream3(sid), "has_rst")
                       /\ Len(Responses3(sid)) >= 1
                       /\ ~HasCloseResponse3(sid))

\* C3 (wireshark3.py): after the capture is read and the pass has run to its
\* end, the incomplete-transaction list holds exactly the streams with at least
\* one request, no response, and ended by RST.  Stated for the streams on which
\* no FIN was seen.
C3_IncompleteIffRequestNoResponseRst ==
    pc = "done" =>
        \A sid \in Streams3 :
            ~Has(Stream3(sid), "has_fin") =>
                (sid \in Range(report3.incomplete_streams)
                   <=> /\ Len(Requests3(sid)) >= 1
                       /\ Len(Responses3(sid)) = 0
                       /\ Has(Stream3(sid), "has_rst"))

\* C4 (wireshark3.py): a stream is listed as silently terminated only if no
\* FIN and no RST was seen on it, it has at least one request, and its largest
\* gap exceeds both 1.0 s and 5 times its mean gap.
C4_SilentOnlyWithoutTermination ==
    pc # "ingest" =>
        \A n \in DOMAIN report3.silently_terminated_streams :
            LET sid == report3.silently_terminated_streams[n].stream_id
            IN  /\ ~Has(Stream3(sid), "has_fin")
                /\ ~Has(Stream3(sid), "has_rst")
                /\ Len(Requests3(sid)) >= 1
                /\ SignificantIdle(TimeDiffs(Stream3(sid)))

\* the finished stream of scenario C: packets at 0 s, 0.1 s, 0.2 s and 50 s, one
\* request at 0.1 s, no FIN and no RST
ScenarioC ==
    /\ "0" \in Streams3
    /\ Stream3("0")["packet_timestamps"] = <<0, 10, 20, 5000>>
    /\ ~Has(Stream3("0"), "has_fin")
    /\ ~Has(Stream3("0"), "has_rst")
    /\ Len(Requests3("0")) = 1
    /\ Requests3("0")[1]["time"] = 10

\* C5 (wireshark3.py): the stream of scenario C is listed as silently
\* terminated by the pass.
C5_ScenarioCFlagged ==
    (pc # "ingest" /\ ScenarioC) =>
        \E n \in DOMAIN report3.silently_terminated_streams :
            report3.silently_terminated_streams[n].stream_id = "0"

\* C6 (wireshark3.py): after the capture is read, every stream that used an
\* (address, port) used by more than one stream is in reused_connections.
C6_AllSharersFlagged ==
    pc # "ingest" =>
        \A ip \in DOMAIN ws3.tcp_ports_by_ip :
            \A port \in DOMAIN ws3.tcp_ports_by_ip[ip] :
                Cardinality(ws3.tcp_ports_by_ip[ip][port]) > 1 =>
                    ws3.tcp_ports_by_ip[ip][port] \subseteq ws3.reused_connections

\* C7 (wireshark3.py): the pass after the loop never aborts.
C7_PassNeverAborts == pc # "crashed"

\* C8 (wireshark3.py): every stream record has first_packet_time, and
\* first_packet_time <= every entry of packet_timestamps <= last_packet_time.
C8_TimingInvariant ==
    \A sid \in Streams3 :
        /\ Has(Stream3(sid), "first_packet_time")
        /\ Has(Stream3(sid), "last_packet_time")
        /\ \A t \in Range(Get(Stream3(sid), "packet_timestamps", << >>)) :
              /\ Stream3(sid)["first_packet_time"] <= t
              /\ t <= Stream3(sid)["last_packet_time"]

\* C9 (wireshark3.py): for every stream with a recorded RST or FIN, the
\* recorded time of it lies within [first_packet_time, last_packet_time].
C9_TerminationWithinLifetime ==
    \A sid \in Streams3 :
        \A e \in {<<"has_rst", "rst_time">>, <<"has_fin", "fin_time">>} :
            Has(Stream3(sid), e[1]) =>
                /\ Has(Stream3(sid), e[2])
                /\ Has(Stream3(sid), "first_packet_time")
                /\ Has(Stream3(sid), "last_packet_time")
                /\ Stream3(sid)["first_packet_time"] <= Stream3(sid)[e[2]]
                /\ Stream3(sid)[e[2]] <= Stream3(sid)["last_packet_time"]

\* C10 (wireshark3.py): in every state, every stream record counts as many
\* packets as it holds timestamps, whichever block created the record.
C10_PacketsMatchTimestamps ==
    \A sid \in Streams3 :
        /\ Has(Stream3(sid), "packets")
        /\ Has(Stream3(sid), "packet_timestamps")
        /\ Stream3(sid)["packets"] = Len(Stream3(sid)["packet_timestamps"])

\* a record made by the handshake block that has seen a second packet, beside
\* a record made by the stream-tracking block
C10_Witness ==
    \E a \in Streams3, b \in Streams3 :
        /\ ~Has(Stream3(a), "first_packet_time")
        /\ Stream3(a)["packets"] >= 2
        /\ Has(Stream3(b), "first_packet_time")
        /\ Stream3(b)["packets"] >= 1


\* the record wireshark1.py keeps for a connection key
Conn1(key) == DictGet(ws1.connections, key)

Conns1 == DictKeySet(ws1.connections)

\* positions in the capture of the TCP packets of a stream
EventsOf3(sid) == {n \in DOMAIN fed : fed[n].tcp /\ fed[n].stream = sid}

\* positions in the capture of the TCP packets between the two endpoints of a
\* connection key, in either direction
EventsOf1(key) ==
    {n \in DOMAIN fed :
        fed[n].tcp /\ key \in {ConnKeyForward(fed[n]), ConnKeyReverse(fed[n])}}

\* sum of the lengths of the packets at the positions in at
LengthsAt(at) ==
    LET sum[n \in 0..Len(fed)] ==
            IF n = 0 THEN 0
            ELSE sum[n - 1] + (IF n \in at THEN fed[n].length ELSE 0)
    IN  sum[Len(fed)]

LastOf(at) == CHOOSE n \in at : \A m \in at : m <= n

\* C11 (wireshark3.py, wireshark1.py): every TCP packet is accounted for.  After
\* any packets, each stream record of wireshark3.py counts the TCP packets read
\* for its stream and has the time of the latest of them as last_packet_time,
\* and each connection record of wireshark1.py counts the TCP packets read
\* between its two endpoints and the sum of their lengths.
C11_EveryEventAccounted ==
    /\ \A sid \in Streams3 :
          /\ Get(Stream3(sid), "packets", 0) = Cardinality(EventsOf3(sid))
          /\ Get(Stream3(sid), "last_packet_time", -1)
               = fed[LastOf(EventsOf3(sid))].sniff_timestamp
    /\ \A key \in Conns1 :
          /\ Get(Conn1(key), "packets", 0) = Cardinality(EventsOf1(key))
          /\ Get(Conn1(key), "bytes", 0) = LengthsAt(EventsOf1(key))

\* the packet is a FIN or RST whose end of connection is on the record, or an
\* HTTP message whose mark is on the record
InfoRecorded1(p, key) ==
    /\ IsTerminating(p) => Has(ws1.connection_ends, key)
    /\ (p.http /\ p.request) => Has(Conn1(key), "has_http_request")
    /\ (p.http /\ p.response) => Has(Conn1(key), "has_http_response")

\* C12 (wireshark1.py): lazy creation.  Every TCP packet read leaves a
\* connection record for its two endpoints, whatever its flags, and what the
\* packet says of termination or HTTP is on that record.
C12_LazyCreation ==
    \A n \in DOMAIN fed :
        fed[n].tcp =>
            \E key \in {ConnKeyForward(fed[n]), ConnKeyReverse(fed[n])} :
                /\ key \in Conns1
                /\ InfoRecorded1(fed[n], key)

\* C13 (wireshark1.py): the connection key does not depend on direction.  The
\* table never holds a record under a key and another under the reversed key.
C13_OneRecordPerPair ==
    \A key \in Conns1 :
        <<key[3], key[4], key[1], key[2]>> \notin Conns1

\* the packet read by the step
Latest == fed'[Len(fed')]

IsSyn(p) == p.flags_syn # NoAttr /\ p.flags_syn = "1" /\ p.flags_ack = "0"

\* C14 (wireshark1.py): a SYN without ACK read for a key that already has a
\* record leaves the record's start time, handshake marks and HTTP marks as
\* they were and does not lower its packet and byte counts.
C14_SynKeepsRecord ==
    [][(IsSyn(Latest) /\ ConnKeyForward(Latest) \in Conns1) =>
          LET old == Conn1(ConnKeyForward(Latest))
              new == DictGet(ws1'.connections, ConnKeyForward(Latest))
          IN  /\ new["start_time"] = old["start_time"]
              /\ new["packets"] >= old["packets"]
              /\ new["bytes"] >= old["bytes"]
              /\ new["established"] = old["established"]
              /\ \A k \in {"syn_ack_received", "has_http_request",
                           "has_http_response", "has_connection_close",
                           "end_time"} :
                     Has(old, k) => Has(new, k)]_vars

\* an ACK that is neither a SYN nor part of a RST
IsPlainAck(p) ==
    /\ p.flags_ack # NoAttr /\ p.flags_ack = "1"
    /\ ~(p.flags_syn # NoAttr /\ p.flags_syn = "1")
    /\ ~(p.flags_reset # NoAttr /\ p.flags_reset = "1")

\* the loop body gives the packet up: lines 194-195 of wireshark3.py, lines
\* 112-113 of wireshark1.py
Skipped3(p) == ~p.ip \/ HandshakeRaises(p)

Skipped1(p) == ~p.ip \/ Raises1(p)

\* C16 (wireshark3.py): has_ack is set only by an ACK that is neither a SYN nor
\* part of a RST.  A step leaves has_ack of the packet's stream as it was
\* unless the packet is a plain ACK, and after a plain ACK has_ack is set.
C16_AckSetOnlyByPlainAck ==
    [][LET sid == Latest.stream
           before == DictHas(ws3.tcp_streams, sid) /\ Has(Stream3(sid), "has_ack")
           after == /\ DictHas(ws3'.tcp_streams, sid)
                    /\ Has(DictGet(ws3'.tcp_streams, sid), "has_ack")
       IN  (Latest.tcp /\ ~Skipped3(Latest)) =>
               IF IsPlainAck(Latest) THEN after ELSE after = before]_vars

CarriesRst(p) == p.flags_reset # NoAttr /\ p.flags_reset = "1"

CarriesFin(p) == p.flags_fin # NoAttr /\ p.flags_fin = "1"

\* C17 (wireshark3.py, wireshark1.py): the termination counters count packets.
\* After any packets, each script's RST counter is the number of TCP packets
\* carrying RST that its loop body did not give up, and its FIN counter the
\* number of those carrying FIN.
C17_CountersCountPackets ==
    /\ ws3.total_rst_packets = Cardinality(
           {n \in DOMAIN fed : fed[n].tcp /\ ~Skipped3(fed[n]) /\ CarriesRst(fed[n])})
    /\ ws3.total_fin_packets = Cardinality(
           {n \in DOMAIN fed : fed[n].tcp /\ ~Skipped3(fed[n]) /\ CarriesFin(fed[n])})
    /\ ws1.rst_count = Cardinality(
           {n \in DOMAIN fed : fed[n].tcp /\ ~Skipped1(fed[n]) /\ CarriesRst(fed[n])})
    /\ ws1.fin_count = Cardinality(
           {n \in DOMAIN fed : fed[n].tcp /\ ~Skipped1(fed[n]) /\ CarriesFin(fed[n])})

\* two RST packets and a FIN packet counted on one stream, whose record already
\* had the RST when the later packets came
C17_Witness ==
    /\ ws3.total_rst_packets = 2
    /\ ws1.rst_count = 2
    /\ ws3.total_fin_packets = 1
    /\ ws1.fin_count = 1
    /\ Cardinality(Streams3) = 1
    /\ CarriesRst(fed[1])

ClosesResponse(p) ==
    /\ p.tcp /\ p.http /\ p.response
    /\ p.has_connection /\ Contains(Lower(p.connection), StrClose)

\* C18 (wireshark1.py): the close-header counter is the number of HTTP
\* responses read whose connection header contains 'close' in any letter case,
\* each counted once whether or not its connection is tracked; so it never
\* exceeds the number of responses.
C18_CloseHeadersCountResponses ==
    /\ ws1.connection_close_headers = Cardinality(
           {n \in DOMAIN fed : ~Skipped1(fed[n]) /\ ClosesResponse(fed[n])})
    /\ ws1.connection_close_headers <= ws1.http_responses_count

\* how many entries of the list are x
CountIn(list, x) == Cardinality({n \in DOMAIN list : list[n] = x})

TimedStreams3 ==
    {sid \in Streams3 : Has(Stream3(sid), "has_rst") /\ Len(Responses3(sid)) >= 1}

LatestResponse3(sid) ==
    CHOOSE t \in {Responses3(sid)[n]["time"] : n \in DOMAIN Responses3(sid)} :
        \A n \in DOMAIN Responses3(sid) : Responses3(sid)[n]["time"] <= t

\* C19 (wireshark3.py): termination timing.  When the pass has run to its end
\* on a capture without FIN, timing_issues holds exactly one entry for each
\* stream with an RST and at least one response, its delay being the stream's
\* rst_time minus its latest response time, and the four bucket counts sum to
\* the number of those streams.
C19_OneDelayPerStream ==
    (pc = "done" /\ ws3.total_fin_packets = 0) =>
        /\ \A sid \in TimedStreams3 :
              CountIn(report3.timing_issues,
                      <<sid, Stream3(sid)["rst_time"] - LatestResponse3(sid)>>) = 1
        /\ Len(report3.timing_issues) = Cardinality(TimedStreams3)
        /\ report3.time_ranges["< 0.01s"] + report3.time_ranges["0.01s - 0.1s"]
             + report3.time_ranges["0.1s - 1s"] + report3.time_ranges["> 1s"]
             = Cardinality(TimedStreams3)

\* time of the first packet counted on the stream
FirstSeen3(sid) == Stream3(sid)["packet_timestamps"][1]

\* C20 (wireshark3.py): short-lived active streams.  After the capture is read
\* a stream is in short_streams, once, exactly if its last packet time minus
\* its first packet time is below 0.5 s and it has a request or a response.
C20_ShortLivedIff ==
    pc # "ingest" =>
        \A sid \in Streams3 :
            LET duration == Stream3(sid)["last_packet_time"] - FirstSeen3(sid)
                listed == {n \in DOMAIN report3.short_streams :
                              report3.short_streams[n][1] = sid}
            IN  IF duration < ShortLived
                   /\ (Len(Requests3(sid)) >= 1 \/ Len(Responses3(sid)) >= 1)
                THEN Cardinality(listed) = 1
                ELSE listed = {}

\* C28 (wireshark1.py): the derived ratios are computed without a fatal error
\* for every finished capture.  The report after the loop never ends in the
\* ZeroDivisionError of the close-header ratio.
C28_RatiosNeverRaise == report1.error # "ZeroDivisionError"

\* C29 (wireshark1.py): the total-connections counter is the number of
\* connection records; a second SYN on a tracked connection does not raise it.
C29_TotalIsRecordCount == ws1.total_connections = Cardinality(Conns1)

\* C27 (wireshark3.py): detection starts only after ingestion.  While packets
\* are still being read no stream is in the port-reuse set and no RST is in
\* the list of RSTs after a response.
C27_NothingFlaggedWhileReading ==
    pc = "ingest" =>
        /\ ws3.reused_connections = {}
        /\ ws3.rst_after_response = << >>

\* the delays of timing_issues that lie in [low, high)
DelaysWithin(low, high) ==
    {n \in DOMAIN report3.timing_issues :
        /\ low <= report3.timing_issues[n][2]
        /\ report3.timing_issues[n][2] < high}

DelaysBelow(high) ==
    {n \in DOMAIN report3.timing_issues : report3.timing_issues[n][2] < high}

DelaysFrom(low) ==
    {n \in DOMAIN report3.timing_issues : low <= report3.timing_issues[n][2]}

\* C30 (wireshark3.py): the histogram is a partition.  When the pass has run to
\* its end, the four buckets count the delays d < 0.01 s, 0.01 s <= d < 0.1 s,
\* 0.1 s <= d < 1 s and d >= 1 s, and the four counts sum to the number of
\* delays.
C30_BucketsPartition ==
    pc = "done" =>
        /\ report3.time_ranges["< 0.01s"] = Cardinality(DelaysBelow(BucketFast))
        /\ report3.time_ranges["0.01s - 0.1s"]
             = Cardinality(DelaysWithin(BucketFast, BucketQuick))
        /\ report3.time_ranges["0.1s - 1s"]
             = Cardinality(DelaysWithin(BucketQuick, BucketSlow))
        /\ report3.time_ranges["> 1s"] = Cardinality(DelaysFrom(BucketSlow))
        /\ report3.time_ranges["< 0.01s"] + report3.time_ranges["0.01s - 0.1s"]
             + report3.time_ranges["0.1s - 1s"] + report3.time_ranges["> 1s"]
             = Len(report3.timing_issues)

\* the pass has bucketed two delays that are boundary values
C30_Witness ==
    /\ pc = "done"
    /\ Len(report3.timing_issues) = 2
    /\ \E n \in DOMAIN report3.timing_issues :
          report3.timing_issues[n][2] \in {BucketFast, BucketQuick}
    /\ \E n \in DOMAIN report3.timing_issues :
          report3.timing_issues[n][2] = BucketSlow

\* positions in the capture of the TCP packets a loop body gave up
GivenUp3 == {n \in DOMAIN fed : fed[n].tcp /\ Skipped3(fed[n])}

GivenUp1 == {n \in DOMAIN fed : fed[n].tcp /\ Skipped1(fed[n])}

Own3(sid) ==
    LET Mine(p) == p.tcp /\ p.stream = sid
    IN  SelectSeq(fed, Mine)

\* the packets of the capture between the two endpoints of a connection key
Own1(key) ==
    LET Mine(p) == p.tcp /\ key \in {ConnKeyForward(p), ConnKeyReverse(p)}
    IN  SelectSeq(fed, Mine)

ListOf(dict, key) == IF DictHas(dict, key) THEN DictGet(dict, key) ELSE << >>

\* C24 (wireshark3.py, wireshark1.py): sharding by flow is safe.  After any
\* interleaving of the flows, the record, requests and responses
\* wireshark3.py holds for a stream, and the record and end wireshark1.py hold
\* for a connection key, are those the script builds from the packets of that
\* flow alone.
C24_ShardingSafe ==
    /\ \A sid \in Streams3 :
          LET alone == Loop3(Init3, Own3(sid))
          IN  /\ DictHas(alone.tcp_streams, sid)
              /\ DictGet(alone.tcp_streams, sid) = Stream3(sid)
              /\ ListOf(alone.http_requests_by_stream, sid) = Requests3(sid)
              /\ ListOf(alone.http_responses_by_stream, sid) = Responses3(sid)
    /\ \A key \in Conns1 :
          LET alone == Loop1(Init1, Own1(key))
          IN  /\ DictHas(alone.connections, key)
              /\ DictGet(alone.connections, key) = Conn1(key)
              /\ Get(alone.connection_ends, key, "") = Get(ws1.connection_ends, key, "")

\* packets of another flow were read between two packets of a stream that has
\* a record in both scripts
C24_Witness ==
    /\ Len(fed) = 3
    /\ fed[1].stream = fed[3].stream
    /\ fed[2].stream # fed[1].stream
    /\ ConnKeyForward(fed[2]) \notin {ConnKeyForward(fed[1]), ConnKeyReverse(fed[1])}
    /\ fed[1].stream \in Streams3
    /\ Stream3(fed[1].stream)["packets"] = 2
    /\ ConnKeyForward(fed[1]) \in Conns1
    /\ Has(ws1.connection_ends, ConnKeyForward(fed[1]))

IsSynAck(p) == p.flags_syn # NoAttr /\ p.flags_syn = "1" /\ p.flags_ack = "1"

\* the capture opens with the three packets of a handshake on stream "0"
OpensWithHandshake ==
    /\ Len(fed) >= 3
    /\ \A n \in DOMAIN fed : fed[n].tcp /\ fed[n].ip /\ fed[n].stream = "0"
    /\ IsSyn(fed[1])
    /\ IsSynAck(fed[2])
    /\ IsPlainAck(fed[3]) /\ ~fed[3].http

\* scenario A: handshake, one request without connection header, one response
\* with connection 'close', then FIN
ScenarioA ==
    /\ OpensWithHandshake
    /\ Len(fed) = 6
    /\ fed[4].http /\ fed[4].request /\ ~fed[4].has_connection
    /\ fed[5].http /\ fed[5].response
    /\ fed[5].has_connection /\ fed[5].connection = StrClose
    /\ CarriesFin(fed[6]) /\ ~CarriesRst(fed[6])

\* C25 (wireshark3.py, wireshark1.py): scenario A.  After such a capture
\* wireshark3.py lists the stream as complete handshake, has a FIN and no RST
\* on it, does not have it among the streams reset after a response and has
\* counted one close header; wireshark1.py has the connection established,
\* ended by FIN, not problematic, and has counted one close header.
C25_ScenarioAResult ==
    /\ (ScenarioA /\ pc # "ingest") =>
          /\ "0" \in Range(report3.complete_handshakes)
          /\ Has(Stream3("0"), "has_fin")
          /\ ~Has(Stream3("0"), "has_rst")
          /\ "0" \notin report3.rst_streams_after_response
          /\ ws3.connection_close_headers = 1
    /\ (ScenarioA /\ pc1 # "ingest") =>
          LET key == ConnKeyForward(fed[1])
          IN  /\ Get(Conn1(key), "established", FALSE)
              /\ Get(ws1.connection_ends, key, "") = "FIN"
              /\ key \notin Range(report1.problematic_connections)
              /\ ws1.connection_close_headers = 1

\* scenario B: handshake, one response without connection header, then RST
ScenarioB ==
    /\ OpensWithHandshake
    /\ Len(fed) = 5
    /\ fed[4].http /\ fed[4].response /\ ~fed[4].has_connection
    /\ CarriesRst(fed[5])

C32_ShortStreamNeverFlagged ==
    pc # "ingest" =>
        \A n \in DOMAIN report3.silently_terminated_streams :
            Stream3(report3.silently_terminated_streams[n].stream_id)["packets"] > 6

\* C33 (wireshark3.py): every delay from the last response to the RST that
\* enters the timing histogram is non-negative when the packets come in
\* non-decreasing time order, also on a stream with a further response after
\* the RST.
C33_DelaysNonNegative ==
    pc = "done" =>
        \A n \in DOMAIN report3.timing_issues : report3.timing_issues[n][2] >= 0

\* the (address, port) pairs of a packet
Endpoints(p) == {<<p.src, p.srcport>>, <<p.dst, p.dstport>>}

\* positions in the capture of the packets that reach lines 54-70
Ported3 == {n \in DOMAIN fed : fed[n].tcp /\ fed[n].ip}

\* C34 (wireshark3.py): the reuse flag is sound.  After any packets, every
\* stream in reused_connections has a packet that shares an (address, port)
\* pair with a packet of a different stream; a stream whose endpoints no other
\* stream used is not flagged.
C34_ReuseFlagSound ==
    \A sid \in ws3.reused_connections :
        \E n \in Ported3, m \in Ported3 :
            /\ fed[n].stream = sid
            /\ fed[m].stream # sid
            /\ Endpoints(fed[n]) \cap Endpoints(fed[m]) # {}

\* a stream is flagged for sharing its endpoints while a stream between other
\* endpoints, read as well, is not
C34_Witness ==
    /\ "1" \in ws3.reused_connections
    /\ \E n \in Ported3 : fed[n].stream = "2"
    /\ "2" \notin ws3.reused_connections

\* C35 (wireshark3.py): a skip is atomic.  A step whose packet the loop body
\* gives up leaves the stream records, the port-usage map, the flagged lists
\* and every counter of the loop as they were before the packet (the error
\* line the handler prints aside).
C35_SkipIsAtomic ==
    [][(Latest.tcp /\ Skipped3(Latest)) =>
          [ws3' EXCEPT !.errors = ws3.errors] = ws3]_vars

\* C36 (wireshark1.py): in every state each connection key with an entry in
\* connection_ends has a record with end_time and duration, the duration being
\* end_time - start_time >= 0, also after a new SYN on the key; so the report
\* formats the duration of every terminated connection without error.
C36_EndedHasDuration ==
    /\ \A key \in DOMAIN ws1.connection_ends :
          /\ key \in Conns1
          /\ Has(Conn1(key), "end_time")
          /\ Has(Conn1(key), "duration")
          /\ Conn1(key)["duration"] = Conn1(key)["end_time"] - Conn1(key)["start_time"]
          /\ Conn1(key)["duration"] >= 0
    /\ report1.error # "ValueError"

=============================================================================
